---- MODULE Spec2Model ----
(***************************************************************************)
(* A model of gps_parser.py: the three readers fit_read, gpx_read and      *)
(* tcx_read, the dispatcher parse_file and the command-line entry point.   *)
(*                                                                         *)
(* A record is a function from field names to integers.  A data frame is   *)
(* a set of column names with a sequence of rows; once the timestamp       *)
(* column has become the index, the frame also carries that index.  Time   *)
(* is counted in ticks, TicksPerSec ticks to the second, so that two       *)
(* records can fall in the same second at different instants.              *)
(***************************************************************************)
EXTENDS Integers, Sequences, FiniteSets, TLC

\* ------------------------------------------------------------------ bounds
MaxRecords == 3
MaxTick == 4
MaxTcxRecords == 2
MaxStem == 4

\* --------------------------------------------------------------- constants
\* Ticks in the '1s' resampling period.
TicksPerSec == 2
\* The missing value (pandas' NaN), outside the range of every field value.
NaN == -1000000
\* 2147483648 / 4 semicircles, which the factor 180 / 2147483648 maps to 45.
SemiPer45 == 536870912

\* ----------------------------------------------------------------- helpers
Range(s) == {s[i] : i \in DOMAIN s}

MinOf(S) == CHOOSE x \in S : \A y \in S : x <= y

MaxOf(S) == CHOOSE x \in S : \A y \in S : y <= x

\* The start of the period that holds instant t (Timestamp.floor('1s')), in seconds.
FloorSec(t) == t \div TicksPerSec

\* ------------------------------------------------------------ the outcomes
\* A call returns a frame, raises, or returns None.
Returned(index, cols, rows) ==
    [status |-> "ok", err |-> "", index |-> index, cols |-> cols, rows |-> rows]

Raise(e) == [status |-> "error", err |-> e, index |-> <<>>, cols |-> {}, rows |-> <<>>]

ReturnNone == [status |-> "none", err |-> "", index |-> <<>>, cols |-> {}, rows |-> <<>>]

\* ---------------------------------------------------------------- pandas
\* pd.DataFrame.from_records: the columns are the union of the records' keys,
\* and a record that lacks a key has NaN in that column.
FromRecords(recs) ==
    LET cols == UNION {DOMAIN recs[i] : i \in DOMAIN recs}
    IN  [cols |-> cols,
         rows |-> [i \in DOMAIN recs |->
                    [c \in cols |-> IF c \in DOMAIN recs[i] THEN recs[i][c] ELSE NaN]]]

\* df[new] = df[old]
CopyColumn(df, old, new) ==
    [cols |-> df.cols \cup {new},
     rows |-> [i \in DOMAIN df.rows |->
                [c \in df.cols \cup {new} |->
                    IF c = new THEN df.rows[i][old] ELSE df.rows[i][c]]]]

\* df.drop(columns=labels) once every label is known to be a column.
DropColumns(df, labels) ==
    [cols |-> df.cols \ labels,
     rows |-> [i \in DOMAIN df.rows |-> [c \in df.cols \ labels |-> df.rows[i][c]]]]

\* df.set_index('timestamp', drop=True)
SetIndex(df) ==
    [index |-> [i \in DOMAIN df.rows |-> df.rows[i]["timestamp"]],
     cols  |-> df.cols \ {"timestamp"},
     rows  |-> [i \in DOMAIN df.rows |->
                 [c \in df.cols \ {"timestamp"} |-> df.rows[i][c]]]]

\* The labels of the one-second bins of resample('1s'): every whole second from
\* the first instant's second to the last instant's second.
ResIndex(idx) ==
    LET first == FloorSec(MinOf(Range(idx)))
        last  == FloorSec(MaxOf(Range(idx)))
    IN  [k \in 1..(last - first + 1) |-> first + k - 1]

\* DatetimeIndex.inferred_freq is '1s' (and the bins are as many as the rows):
\* at least three instants, each one second after the one before.
EqualSampling(idx) ==
    /\ Len(idx) >= 3
    /\ \A i \in 1..(Len(idx) - 1) : idx[i + 1] - idx[i] = TicksPerSec

IsUnique(idx) == \A i, j \in DOMAIN idx : idx[i] = idx[j] => i = j

\* The position of the last row at or before second s, 0 when there is none
\* (Index.get_indexer(target, method='ffill')).
PadIndexer(idx, s) ==
    LET at == {i \in DOMAIN idx : idx[i] <= s * TicksPerSec}
    IN  IF at = {} THEN 0 ELSE MaxOf(at)

\* Resampler.ffill(): upsampling.  With equal sampling the rows are kept and
\* relabelled; otherwise the frame is reindexed on the bin labels with
\* method='ffill', which takes for each label the whole row of the last
\* instant at or before it, and cannot be done on a non-unique index.
ResampleFfill(fr) ==
    LET res == ResIndex(fr.index)
    IN  IF EqualSampling(fr.index)
        THEN Returned(res, fr.cols, fr.rows)
        ELSE IF ~IsUnique(fr.index)
        THEN Raise("ValueError")
        ELSE Returned(res, fr.cols,
                 [k \in DOMAIN res |->
                    LET p == PadIndexer(fr.index, res[k])
                    IN  [c \in fr.cols |-> IF p = 0 THEN NaN ELSE fr.rows[p][c]]])

\* DataFrame.bfill(): column by column, a NaN takes the next value below it.
Bfill(cols, rows) ==
    [k \in DOMAIN rows |->
        [c \in cols |->
            LET below == {j \in DOMAIN rows : j >= k /\ rows[j][c] # NaN}
            IN  IF below = {} THEN NaN ELSE rows[MinOf(below)][c]]]

\* df.resample('1s').ffill().bfill() on a frame indexed by its instants
\* (the timestamps of the inputs are in non-decreasing order, so the
\* resampler's sort of the index leaves the rows where they are).
Resample(fr) ==
    LET f == ResampleFfill(fr)
    IN  IF f.status # "ok" THEN f
        ELSE Returned(f.index, f.cols, Bfill(f.cols, f.rows))

\* ------------------------------------------------------------- conversions
\* semicircles * (180 / 2147483648), on the multiples of 2147483648 / 4,
\* where the product is a whole number of degrees; NaN stays NaN.
SemiToDeg(v) == IF v = NaN THEN NaN ELSE (v \div SemiPer45) * 45

\* raw / 5 - 500, on the multiples of 5; NaN stays NaN.
AltToMeters(v) == IF v = NaN THEN NaN ELSE (v \div 5) - 500

\* df[new] = df[old] * (180 / 2147483648) on a resampled frame.
DegreesColumn(r, old, new) ==
    Returned(r.index, r.cols \cup {new},
        [k \in DOMAIN r.rows |->
            [c \in r.cols \cup {new} |->
                IF c = new THEN SemiToDeg(r.rows[k][old]) ELSE r.rows[k][c]]])

\* df['altitude'] = df['altitude']/5-500 on a resampled frame.
AltitudeColumn(r) ==
    Returned(r.index, r.cols,
        [k \in DOMAIN r.rows |->
            [c \in r.cols |->
                IF c = "altitude" THEN AltToMeters(r.rows[k][c]) ELSE r.rows[k][c]]])

\* ---------------------------------------------------------------- fit_read
\* The conversions fit_read applies to the resampled frame.
fit_convert(r) ==
    LET a == IF "position_lat" \in r.cols
             THEN IF "position_long" \in r.cols
                  THEN DegreesColumn(DegreesColumn(r, "position_lat", "latitude"),
                                     "position_long", "longitude")
                  ELSE Raise("KeyError")
             ELSE r
    IN  IF a.status # "ok" THEN a
        ELSE IF "altitude" \in a.cols THEN AltitudeColumn(a)
        ELSE a

\* fit_read with a guard that hands back an empty frame for no records.
fit_read_empty_frame(recs) ==
    IF Len(recs) = 0 THEN Returned(<<>>, {}, <<>>)
    ELSE LET df == FromRecords(recs)
         IN  IF "timestamp" \notin df.cols THEN Raise("AttributeError")
             ELSE LET r == Resample(SetIndex(df))
                  IN  IF r.status # "ok" THEN r ELSE fit_convert(r)

fit_read(recs) ==
    LET df == FromRecords(recs)
    IN  IF "timestamp" \notin df.cols THEN Raise("AttributeError")
        ELSE LET r == Resample(SetIndex(df))
             IN  IF r.status # "ok" THEN r ELSE fit_convert(r)

\* ---------------------------------------------------------------- gpx_read
\* One record per point: latitude, longitude, elevation and time under their
\* record names, then the extensions ('power', and the children of the
\* TrackPointExtension element under their local tag names).
GpxRecord(point) ==
    LET ext == DOMAIN point \ {"latitude", "longitude", "elevation", "time"}
    IN  [f \in {"latitude", "longitude", "altitude", "timestamp"} \cup ext |->
            IF f = "altitude" THEN point["elevation"]
            ELSE IF f = "timestamp" THEN point["time"]
            ELSE point[f]]

GpxRenames == <<  <<"hr", "heart_rate">>, <<"cad", "cadence">>, <<"atemp", "temperature">>  >>

\* The 'if old in df.columns' blocks, in order: copy and mark for deletion.
RECURSIVE RenamePresent(_, _, _)
RenamePresent(df, table, k) ==
    IF k > Len(table) THEN df
    ELSE IF table[k][1] \in df.cols
         THEN RenamePresent(CopyColumn(df, table[k][1], table[k][2]), table, k + 1)
         ELSE RenamePresent(df, table, k + 1)

PresentSources(df, table) == {table[k][1] : k \in {j \in DOMAIN table : table[j][1] \in df.cols}}

gpx_read(points) ==
    LET df0 == FromRecords([i \in DOMAIN points |-> GpxRecord(points[i])])
        df  == DropColumns(RenamePresent(df0, GpxRenames, 1), PresentSources(df0, GpxRenames))
    IN  IF "timestamp" \notin df.cols THEN Raise("AttributeError")
        ELSE Resample(SetIndex(df))

\* ---------------------------------------------------------------- tcx_read
TcxRenames ==
    <<  <<"latitudedegrees", "latitude">>, <<"longitudedegrees", "longitude">>,
        <<"altitudemeters", "altitude">>, <<"watts", "power">>,
        <<"heartratebpm", "heart_rate">>, <<"distancemeters", "distance">>  >>

\* The initial cols_to_delete.
TcxAlwaysDeleted ==
    {"type", "time", "altitudefeet", "seq", "distancemiles", "distancekilometers",
     "cadencex2", "elapsedtime"}

tcx_read(trackpoints) ==
    LET df0 == FromRecords(trackpoints)
    IN  IF "time" \notin df0.cols THEN Raise("KeyError")
        ELSE LET df1 == CopyColumn(df0, "time", "timestamp")
                 to_delete == TcxAlwaysDeleted \cup PresentSources(df1, TcxRenames)
                 df2 == RenamePresent(df1, TcxRenames, 1)
             IN  IF ~(to_delete \subseteq df2.cols) THEN Raise("KeyError")
                 ELSE Resample(SetIndex(DropColumns(df2, to_delete)))

\* -------------------------------------------------------------- parse_file
\* str.endswith on a path given as its sequence of characters; a run of
\* letters or digits that holds no separator and no dot stands as one item.
EndsWith(path, suffix) ==
    /\ Len(path) >= Len(suffix)
    /\ SubSeq(path, Len(path) - Len(suffix) + 1, Len(path)) = suffix

parse_file(path, recs) ==
    IF EndsWith(path, <<".", "fit">>) THEN fit_read(recs)
    ELSE IF EndsWith(path, <<".", "gpx">>) THEN gpx_read(recs)
    ELSE IF EndsWith(path, <<".", "tcx">>) THEN tcx_read(recs)
    ELSE ReturnNone

\* ---------------------------------------------------------------- __main__
\* The part of s before the first occurrence of ch (s.split(ch)[0]).
RECURSIVE BeforeFirst(_, _)
BeforeFirst(s, ch) ==
    IF s = <<>> \/ Head(s) = ch THEN <<>>
    ELSE <<Head(s)>> \o BeforeFirst(Tail(s), ch)

\* The position of the last occurrence of ch in s, 0 when there is none.
LastPos(s, ch) ==
    LET at == {i \in DOMAIN s : s[i] = ch}
    IN  IF at = {} THEN 0 ELSE MaxOf(at)

\* file_path.split(os.path.sep)[-1]
LastComponent(path) == SubSeq(path, LastPos(path, "/") + 1, Len(path))

\* os.path.sep.join(file_path.split(os.path.sep)[0:-1]): what precedes the
\* last separator, the empty string when there is none.
DirPart(path) == SubSeq(path, 1, LastPos(path, "/") - 1)

\* os.path.join(a, b) for a b that is not absolute.
PathJoin(a, b) ==
    IF a = <<>> THEN b
    ELSE IF a[Len(a)] = "/" THEN a \o b
    ELSE a \o <<"/">> \o b

\* The path handed to DataFrame.to_csv.
CsvPath(path) ==
    LET file_name == BeforeFirst(LastComponent(path), ".")
    IN  PathJoin(DirPart(path), file_name \o <<".", "csv">>)

\* The entry point: parse, then write the frame as csv.  A call that raises
\* ends the run with nothing written, and so does calling to_csv on None.
main(path, recs) ==
    LET df == parse_file(path, recs)
    IN  IF df.status = "ok" THEN [result |-> df, csv_path |-> CsvPath(path)]
        ELSE IF df.status = "none"
        THEN [result |-> Raise("AttributeError"), csv_path |-> <<>>]
        ELSE [result |-> df, csv_path |-> <<>>]

\* ------------------------------------------------------------------- state
VARIABLES
    file_path,   \* the path of the input file
    kind,        \* the format of its content: "fit", "gpx" or "tcx"
    records,     \* what the format's decoder yields for it
    pc,          \* "ready", "returned" (a reader or parse_file is back), "exited"
    result,      \* the outcome of the call
    csv_path     \* the path written by the entry point, <<>> when nothing was

vars == <<file_path, kind, records, pc, result, csv_path>>

\* ------------------------------------------------------------------ inputs
\* The instants of n records in source order: non-decreasing.
Times(n) ==
    {t \in [1..n -> 0..MaxTick] : \A i \in 1..(n - 1) : t[i] <= t[i + 1]}

\* A FIT timestamp has a resolution of one second.
WholeTimes(n) == {t \in Times(n) : \A i \in 1..n : t[i] % TicksPerSec = 0}

FitOptional == {"position_lat", "position_long", "altitude"}

\* The value of field f in the i-th FIT record message.
FitValue(f, i) ==
    CASE f = "position_lat"  -> (i - 1) * SemiPer45
      [] f = "position_long" -> (2 - i) * SemiPer45
      [] f = "altitude"      -> IF i = 1 THEN 0 ELSE 2495 + 5 * (i - 1)

\* The record messages of a FIT file: instants t, optional fields p.
FitMessages(t, p) ==
    [i \in DOMAIN t |->
        [f \in {"timestamp"} \cup p[i] |->
            IF f = "timestamp" THEN t[i] ELSE FitValue(f, i)]]

GpxOptional == {"hr"}

\* Extensions a device writes on every point or on none.
GpxSensors == {{}, {"cad"}, {"atemp", "power"}}

\* The i-th GPX point: elevation may be None, the extensions may be absent.
GpxValue(f, i) ==
    CASE f = "latitude"  -> 50 + i
      [] f = "longitude" -> 3 + i
      [] f = "elevation" -> 10 * i
      [] f = "hr"        -> 130 + 10 * i
      [] f = "cad"       -> 80 + i
      [] f = "atemp"     -> 20 + i
      [] f = "power"     -> 200 + i

\* The points of a GPX file: instants t, optional extensions p, sensors x,
\* and e[i] when point i has no elevation.
GpxPoints(t, p, x, e) ==
    [i \in DOMAIN t |->
        [f \in {"latitude", "longitude", "elevation", "time"} \cup p[i] \cup x |->
            IF f = "time" THEN t[i]
            ELSE IF f = "elevation" /\ e[i] THEN NaN
            ELSE GpxValue(f, i)]]

TcxSources == {TcxRenames[k][1] : k \in DOMAIN TcxRenames}

TcxFields == (TcxAlwaysDeleted \ {"time"}) \cup TcxSources \cup {"cadence"}

TcxOptional == {"altitudemeters", "heartratebpm"}

\* The value of field f in the i-th trackpoint.
TcxValue(f, i) ==
    CASE f = "altitudemeters" -> 10 * i
      [] f = "heartratebpm"   -> 130 + 10 * i
      [] OTHER                -> i

\* The trackpoints of a TCX file: instants t, fields p[i] beside the time.
TcxTrackpoints(t, p) ==
    [i \in DOMAIN t |->
        [f \in {"time"} \cup p[i] |->
            IF f = "time" THEN t[i] ELSE TcxValue(f, i)]]

\* ----------------------------------------------------------- specification
InitFit ==
    /\ kind = "fit"
    /\ \E n \in 0..MaxRecords :
         \E t \in WholeTimes(n), p \in [1..n -> SUBSET FitOptional] :
            records = FitMessages(t, p)

InitGpx ==
    /\ kind = "gpx"
    /\ \E n \in 0..MaxRecords :
         \E t \in Times(n), p \in [1..n -> SUBSET GpxOptional],
            x \in GpxSensors, e \in [1..n -> BOOLEAN] :
            records = GpxPoints(t, p, x, e)

\* Trackpoints that carry every field tcx_read always deletes.
InitTcx ==
    /\ kind = "tcx"
    /\ \E n \in 0..MaxRecords :
         \E t \in Times(n), p \in [1..n -> SUBSET TcxOptional] :
            records = TcxTrackpoints(t, [i \in 1..n |-> (TcxAlwaysDeleted \ {"time"}) \cup p[i]])

Init ==
    /\ InitFit \/ InitGpx \/ InitTcx
    /\ file_path = <<"ride", ".", kind>>
    /\ pc = "ready"
    /\ result = ReturnNone
    /\ csv_path = <<>>

FitRead ==
    /\ pc = "ready"
    /\ kind = "fit"
    /\ result' = fit_read(records)
    /\ pc' = "returned"
    /\ UNCHANGED <<file_path, kind, records, csv_path>>

GpxRead ==
    /\ pc = "ready"
    /\ kind = "gpx"
    /\ result' = gpx_read(records)
    /\ pc' = "returned"
    /\ UNCHANGED <<file_path, kind, records, csv_path>>

TcxRead ==
    /\ pc = "ready"
    /\ kind = "tcx"
    /\ result' = tcx_read(records)
    /\ pc' = "returned"
    /\ UNCHANGED <<file_path, kind, records, csv_path>>

Next == FitRead \/ GpxRead \/ TcxRead

Spec == Init /\ [][Next]_vars

\* ------------------------------------- tcx_read on every set of fields
\* Trackpoints one second apart that all carry the same set of fields.
InitTcxFields ==
    /\ kind = "tcx"
    /\ \E n \in 1..MaxTcxRecords, S \in SUBSET TcxFields :
          records = TcxTrackpoints([i \in 1..n |-> TicksPerSec * (i - 1)], [i \in 1..n |-> S])
    /\ file_path = <<"ride", ".", kind>>
    /\ pc = "ready"
    /\ result = ReturnNone
    /\ csv_path = <<>>

NextTcx == TcxRead

SpecTcx == InitTcxFields /\ [][NextTcx]_vars

\* ------------------------------------------- parse_file and the entry point
PathChars == {"/", ".", "ride"}

Stems == UNION {[1..n -> PathChars] : n \in 0..MaxStem}

Suffixes ==
    {<<".", "fit">>, <<".", "gpx">>, <<".", "tcx">>, <<".", "xyz">>, <<".", "FIT">>,
     <<"fit">>, <<>>}

\* The files on disk: the content has the format the suffix names, when it
\* names one; each file holds no record or one.
InitCli ==
    /\ \E stem \in Stems, suffix \in Suffixes :
          file_path = stem \o suffix
    /\ kind \in (IF \E k \in {"fit", "gpx", "tcx"} : EndsWith(file_path, <<".", k>>)
                 THEN {file_path[Len(file_path)]} ELSE {"fit", "gpx", "tcx"})
    /\ \E n \in 0..1 :
          \/ /\ kind = "fit"
             /\ \E p \in SUBSET FitOptional :
                   records = FitMessages([i \in 1..n |-> 0], [i \in 1..n |-> p])
          \/ /\ kind = "gpx"
             /\ \E p \in SUBSET GpxOptional :
                   records = GpxPoints([i \in 1..n |-> 1], [i \in 1..n |-> p], {},
                                       [i \in 1..n |-> FALSE])
          \/ /\ kind = "tcx"
             /\ \E p \in SUBSET TcxOptional :
                   records = TcxTrackpoints([i \in 1..n |-> 1],
                                 [i \in 1..n |-> (TcxAlwaysDeleted \ {"time"}) \cup p])
    /\ pc = "ready"
    /\ result = ReturnNone
    /\ csv_path = <<>>

ParseFile ==
    /\ pc = "ready"
    /\ result' = parse_file(file_path, records)
    /\ pc' = "returned"
    /\ UNCHANGED <<file_path, kind, records, csv_path>>

Main ==
    /\ pc = "ready"
    /\ result' = main(file_path, records).result
    /\ csv_path' = main(file_path, records).csv_path
    /\ pc' = "exited"
    /\ UNCHANGED <<file_path, kind, records>>

NextCli == ParseFile \/ Main

SpecCli == InitCli /\ [][NextCli]_vars

\* ------------------------------------------------------------------ claims
\* The instants of the input's records, in source order.
InputTimes ==
    [i \in DOMAIN records |-> records[i][IF kind = "fit" THEN "timestamp" ELSE "time"]]

\* The raw field an output column is taken from.
SourceField(c) ==
    CASE kind = "fit" /\ c = "latitude"     -> "position_lat"
      [] kind = "fit" /\ c = "longitude"    -> "position_long"
      [] kind = "gpx" /\ c = "altitude"     -> "elevation"
      [] kind = "gpx" /\ c = "heart_rate"   -> "hr"
      [] kind = "gpx" /\ c = "cadence"      -> "cad"
      [] kind = "gpx" /\ c = "temperature"  -> "atemp"
      [] kind = "tcx" /\ c = "latitude"     -> "latitudedegrees"
      [] kind = "tcx" /\ c = "longitude"    -> "longitudedegrees"
      [] kind = "tcx" /\ c = "altitude"     -> "altitudemeters"
      [] kind = "tcx" /\ c = "power"        -> "watts"
      [] kind = "tcx" /\ c = "heart_rate"   -> "heartratebpm"
      [] kind = "tcx" /\ c = "distance"     -> "distancemeters"
      [] OTHER -> c

\* Record i carries a value for output column c.
Carries(i, c) ==
    /\ SourceField(c) \in DOMAIN records[i]
    /\ records[i][SourceField(c)] # NaN

\* The value output column c has when it is taken from record i.
ValueFrom(i, c) ==
    LET v == records[i][SourceField(c)]
    IN  IF kind = "fit" /\ c \in {"latitude", "longitude"} THEN (v \div SemiPer45) * 45
        ELSE IF kind = "fit" /\ c = "altitude" THEN (v \div 5) - 500
        ELSE v

ReaderReturned == pc = "returned" /\ result.status = "ok"

\* C1: a reader given a non-empty input with non-decreasing timestamps (and
\* fields it can extract) returns a series with one row per whole second, from
\* the second of the earliest instant to the second of the latest.
C1_OneRowPerSecond ==
    (pc = "returned" /\ Len(records) > 0 /\ result.err # "KeyError") =>
        LET first == FloorSec(MinOf(Range(InputTimes)))
            last  == FloorSec(MaxOf(Range(InputTimes)))
        IN  /\ result.status = "ok"
            /\ result.index = [k \in 1..(last - first + 1) |-> first + k - 1]
            /\ DOMAIN result.rows = DOMAIN result.index

\* C2: in the returned series no row lacks a value for a field that some raw
\* record carries.
C2_NoMissingValue ==
    ReaderReturned =>
        \A c \in result.cols :
            (\E i \in DOMAIN records : Carries(i, c)) =>
                \A k \in DOMAIN result.rows : result.rows[k][c] # NaN

\* C3: when two or more records fall in the same one-second bin, the row of
\* that second has, for each field the latest of them carries, its value.
C3_LastInBinWins ==
    ReaderReturned =>
        \A k \in DOMAIN result.index :
            LET bin == {i \in DOMAIN records : FloorSec(InputTimes[i]) = result.index[k]}
            IN  Cardinality(bin) >= 2 =>
                    LET last == MaxOf(bin)
                    IN  \A c \in result.cols :
                            Carries(last, c) => result.rows[k][c] = ValueFrom(last, c)

\* C4: the value of field f at second s is that of the latest record at or
\* before s that carries f, and that of the earliest later record that
\* carries f only when there is no such record.
C4_ForwardFillPerField ==
    ReaderReturned =>
        \A k \in DOMAIN result.index : \A c \in result.cols :
            LET before == {i \in DOMAIN records :
                              InputTimes[i] <= result.index[k] * TicksPerSec /\ Carries(i, c)}
                after  == {i \in DOMAIN records :
                              InputTimes[i] > result.index[k] * TicksPerSec /\ Carries(i, c)}
            IN  IF before # {} THEN result.rows[k][c] = ValueFrom(MaxOf(before), c)
                ELSE after # {} => result.rows[k][c] = ValueFrom(MinOf(after), c)

\* C6: a reader whose decoder yields no record ends in an error, and returns
\* no series.
C6_EmptyIsError ==
    (pc = "returned" /\ Len(records) = 0) => result.status = "error"

C6_Witness ==
    /\ pc = "returned"
    /\ kind = "gpx"
    /\ Len(records) = 0
    /\ result.status = "error"

\* The fields that occur in the input.
InputFields == UNION {DOMAIN records[i] : i \in DOMAIN records}

\* C7: fit_read completes whatever subset of position_lat, position_long and
\* altitude the records carry, and derives latitude and longitude only from
\* a source that is present.
C7_OptionalFitFields ==
    (pc = "returned" /\ kind = "fit" /\ Len(records) > 0 /\ IsUnique(InputTimes)) =>
        /\ result.status = "ok"
        /\ "latitude" \in result.cols => "position_lat" \in InputFields
        /\ "longitude" \in result.cols => "position_long" \in InputFields

\* A FIT record with the unit conversions applied at extraction time.
ConvertedAtExtraction(rec) ==
    LET derived == {"latitude" : x \in {"position_lat"} \cap DOMAIN rec}
                       \cup {"longitude" : x \in {"position_long"} \cap DOMAIN rec}
    IN  [f \in DOMAIN rec \cup derived |->
            CASE f = "latitude"  -> (rec["position_lat"] \div SemiPer45) * 45
              [] f = "longitude" -> (rec["position_long"] \div SemiPer45) * 45
              [] f = "altitude"  -> (rec["altitude"] \div 5) - 500
              [] OTHER           -> rec[f]]

\* C10: the series fit_read returns is the one obtained by converting each
\* record at extraction time and resampling the converted records.
C10_ConversionCommutes ==
    (ReaderReturned /\ kind = "fit") =>
        result = Resample(SetIndex(FromRecords(
                     [i \in DOMAIN records |-> ConvertedAtExtraction(records[i])])))

\* C8: tcx_read completes for every set of fields of the trackpoints; a
\* target of the table is in the output exactly when its source is in the
\* input, with the source's values, and no source or deleted name remains.
C8_TcxFieldTable ==
    (pc = "returned" /\ kind = "tcx" /\ Len(records) > 0) =>
        /\ result.status = "ok"
        /\ \A j \in DOMAIN TcxRenames :
              /\ TcxRenames[j][2] \in result.cols <=> TcxRenames[j][1] \in InputFields
              /\ TcxRenames[j][2] \in result.cols =>
                    \A k \in DOMAIN result.rows :
                        \E i \in DOMAIN records :
                            result.rows[k][TcxRenames[j][2]] = records[i][TcxRenames[j][1]]
        /\ result.cols \cap (TcxSources \cup TcxAlwaysDeleted) = {}

\* C5: parse_file raises for a path with none of the three suffixes.
C5_UnsupportedRaises ==
    (pc = "returned" /\ ~\E k \in {"fit", "gpx", "tcx"} : EndsWith(file_path, <<".", k>>)) =>
        result.status = "error"

\* C9: the entry point writes to the input path with its last item, the
\* extension, replaced by csv.
C9_CsvBesideInput ==
    (pc = "exited" /\ result.status = "ok") =>
        csv_path = SubSeq(file_path, 1, Len(file_path) - 1) \o <<"csv">>

====
